---- MODULE Spec2Model ----
(***************************************************************************)
(* Timeline engine of the Helexia commercial planner                       *)
(* (src/services/scheduler.ts): the date utilities and                     *)
(* calculateProjectTimeline, applied to bounded sets of ProjectConfig.     *)
(*                                                                         *)
(* A Date is modelled by its day number (days since 1970-01-01): every     *)
(* date the engine handles is a midnight, and the engine is read in a UTC  *)
(* environment (the repository does no time-zone handling).  Months are    *)
(* 0-based as in the source.  Durations are whole months, except the       *)
(* negotiation duration, kept in half-months because its default is 0.5.   *)
(***************************************************************************)
EXTENDS Integers, Sequences, FiniteSets, TLC

VARIABLES config, pc, result, locals

vars == <<config, pc, result, locals>>

(***************************************************************************)
(* Built-in Date: civil calendar <-> day number                            *)
(***************************************************************************)

\* day number of the civil date y-m-d, m in 1..12 (proleptic Gregorian)
DaysFromCivil(y, m, d) ==
  LET yy  == IF m <= 2 THEN y - 1 ELSE y
      era == yy \div 400
      yoe == yy - era * 400
      mp  == IF m > 2 THEN m - 3 ELSE m + 9
      doy == (153 * mp + 2) \div 5 + d - 1
      doe == yoe * 365 + yoe \div 4 - yoe \div 100 + doy
  IN  era * 146097 + doe - 719468

\* civil date [y, m (1..12), d] of a day number
CivilFromDays(z) ==
  LET zz  == z + 719468
      era == zz \div 146097
      doe == zz - era * 146097
      yoe == (doe - doe \div 1460 + doe \div 36524 - doe \div 146096) \div 365
      doy == doe - (365 * yoe + yoe \div 4 - yoe \div 100)
      mp  == (5 * doy + 2) \div 153
      d   == doy - (153 * mp + 2) \div 5 + 1
      m   == IF mp < 10 THEN mp + 3 ELSE mp - 9
      y   == yoe + era * 400 + (IF m <= 2 THEN 1 ELSE 0)
  IN  [y |-> y, m |-> m, d |-> d]

getFullYear(date) == CivilFromDays(date).y

\* 0 = January .. 11 = December
getMonth(date) == CivilFromDays(date).m - 1

getDate(date) == CivilFromDays(date).d

\* Date's normalisation of (year, 0-based month, day-of-month): a month
\* outside 0..11 carries into the year, a day outside the month carries into
\* the neighbouring months (31 February is 3 March)
MakeDay(y, m0, d) ==
  DaysFromCivil(y + (m0 \div 12), (m0 % 12) + 1, 1) + d - 1

setMonth(date, m0) ==
  LET c == CivilFromDays(date) IN MakeDay(c.y, m0, c.d)

setDate(date, d) ==
  LET c == CivilFromDays(date) IN MakeDay(c.y, c.m - 1, d)

(***************************************************************************)
(* Date utilities of scheduler.ts                                          *)
(***************************************************************************)

\* mutant: a day beyond the end of the target month is clamped to its last
\* day instead of rolling forward
addMonths_Clamped(date, months) ==
  LET c == CivilFromDays(date)
      firstOfNext == MakeDay(c.y, c.m - 1 + months + 1, 1)
  IN  IF setMonth(date, c.m - 1 + months) >= firstOfNext
      THEN firstOfNext - 1
      ELSE setMonth(date, c.m - 1 + months)

addMonths(date, months) == setMonth(date, getMonth(date) + months)

\* mutant: the difference is not floored at 0
diffMonths_Signed(d1, d2) ==
  (getFullYear(d2) - getFullYear(d1)) * 12 - getMonth(d1) + getMonth(d2)

diffMonths(d1, d2) ==
  LET months == (getFullYear(d2) - getFullYear(d1)) * 12
                  - getMonth(d1) + getMonth(d2)
  IN  IF months <= 0 THEN 0 ELSE months

subMonths(date, months) == setMonth(date, getMonth(date) - months)

\* mutant: April is a productive month
isRestrictedMonth_AprilOpen(date) ==
  LET m == getMonth(date)
  IN  m = 0 \/ m = 7

isRestrictedMonth(date) ==
  LET m == getMonth(date)
  IN  m = 0 \/ m = 3 \/ m = 7

(***************************************************************************)
(* ProjectConfig and PhaseResult (types.ts)                                *)
(* overrides is a sparse map: a function whose domain holds the overridden *)
(* fields.  skippedPhases is the set of the phases flagged true.  An       *)
(* optional value is a set with at most one element.                       *)
(***************************************************************************)

ProjectTypology == {"ROOF_NEW", "ROOF_EXISTING", "SHADE", "GROUND"}

InjectionType == {"TOTAL_INJECTION", "AUTOCONSUMPTION"}

InvestmentModel == {"OWN_INVESTMENT", "CLIENT_INVESTMENT"}

PhaseOverride ==
  {"negotiationDuration", "urbanismDuration", "creDuration",
   "leaseDuration", "connectionDuration", "constructionDuration"}

SkippedPhases ==
  {"negotiation", "urbanism", "aoCre", "leaseManagement",
   "connection", "construction"}

None == {}

Some(x) == {x}

Get(o) == CHOOSE x \in o : TRUE

DateRange(s, e, dur) == [start |-> s, end |-> e, durationMonths |-> dur]

\* new Date("YYYY-MM-DD"): the midnight of that civil date
ParseDate(iso) == DaysFromCivil(iso.y, iso.m, iso.d)

(***************************************************************************)
(* calculateProjectTimeline, stage by stage                                *)
(***************************************************************************)

\* 1. Negotiation, placed backward from T0; the duration is in half-months
negotiationRange(cfg, T0) ==
  IF "negotiation" \in cfg.skippedPhases THEN None
  ELSE
    LET negDuration2 ==
          IF "negotiationDuration" \in DOMAIN cfg.overrides
          THEN 2 * cfg.overrides.negotiationDuration ELSE 1
        \* Math.round(negDuration * 30.44)
        days == (negDuration2 * 1522 + 50) \div 100
        negotiationStart == setDate(T0, getDate(T0) - days)
    IN  Some([start |-> negotiationStart, end |-> T0,
              durationHalfMonths |-> negDuration2])

\* 2. Urbanism
urbanDuration(cfg) ==
  IF "urbanismDuration" \in DOMAIN cfg.overrides
  THEN cfg.overrides.urbanismDuration
  ELSE IF cfg.powerKWc > 3000 \/ cfg.typology = "ROOF_NEW" THEN 6 ELSE 4

\* mutant: the skip flag of the permitting phase is ignored for the anchor
urbanEndOf_IgnoresSkip(cfg, T0) == addMonths(T0, urbanDuration(cfg))

urbanEndOf(cfg, T0) ==
  IF "urbanism" \in cfg.skippedPhases THEN T0
  ELSE addMonths(T0, urbanDuration(cfg))

urbanRange(cfg, T0) ==
  IF "urbanism" \in cfg.skippedPhases THEN None
  ELSE Some(DateRange(T0, addMonths(T0, urbanDuration(cfg)),
                      urbanDuration(cfg)))

\* 3. Security phase: AO CRE and lease management, both from urbanEnd
\* mutant: the tender threshold is inclusive
creRange_Inclusive(cfg, urbanEnd) ==
  IF /\ "aoCre" \notin cfg.skippedPhases
     /\ cfg.powerKWc >= 100
     /\ cfg.injectionType = "TOTAL_INJECTION"
  THEN LET dur == IF "creDuration" \in DOMAIN cfg.overrides
                  THEN cfg.overrides.creDuration ELSE 4
       IN  Some(DateRange(urbanEnd, addMonths(urbanEnd, dur), dur))
  ELSE None

\* mutant: the tender does not depend on the injection mode
creRange_AnyInjection(cfg, urbanEnd) ==
  IF "aoCre" \notin cfg.skippedPhases /\ cfg.powerKWc > 100
  THEN LET dur == IF "creDuration" \in DOMAIN cfg.overrides
                  THEN cfg.overrides.creDuration ELSE 4
       IN  Some(DateRange(urbanEnd, addMonths(urbanEnd, dur), dur))
  ELSE None

creRange(cfg, urbanEnd) ==
  IF /\ "aoCre" \notin cfg.skippedPhases
     /\ cfg.powerKWc > 100
     /\ cfg.injectionType = "TOTAL_INJECTION"
  THEN LET dur == IF "creDuration" \in DOMAIN cfg.overrides
                  THEN cfg.overrides.creDuration ELSE 4
       IN  Some(DateRange(urbanEnd, addMonths(urbanEnd, dur), dur))
  ELSE None

\* mutant: the lease is gated on the other investment model
leaseRange_ClientInvestment(cfg, urbanEnd) ==
  IF /\ "leaseManagement" \notin cfg.skippedPhases
     /\ cfg.investmentModel = "CLIENT_INVESTMENT"
  THEN LET dur == IF "leaseDuration" \in DOMAIN cfg.overrides
                  THEN cfg.overrides.leaseDuration ELSE 4
       IN  Some(DateRange(urbanEnd, addMonths(urbanEnd, dur), dur))
  ELSE None

leaseRange(cfg, urbanEnd) ==
  IF /\ "leaseManagement" \notin cfg.skippedPhases
     /\ cfg.investmentModel = "OWN_INVESTMENT"
  THEN LET dur == IF "leaseDuration" \in DOMAIN cfg.overrides
                  THEN cfg.overrides.leaseDuration ELSE 4
       IN  Some(DateRange(urbanEnd, addMonths(urbanEnd, dur), dur))
  ELSE None

Max(a, b) == IF a >= b THEN a ELSE b

\* mutant: the lock ignores the lease and follows the tender alone
securityLockDateOf_TenderOnly(cre, lease, urbanEnd) ==
  IF cre # None THEN Get(cre).end ELSE urbanEnd

securityLockDateOf(cre, lease, urbanEnd) ==
  LET creEndDate   == IF cre # None THEN Get(cre).end ELSE urbanEnd
      leaseEndDate == IF lease # None THEN Get(lease).end ELSE urbanEnd
  IN  Max(creEndDate, leaseEndDate)

\* 4. Connection sizing
\* mutant: an override wins over the skip flag
connectionDurationOf_OverrideFirst(cfg) ==
  IF "connectionDuration" \in DOMAIN cfg.overrides
  THEN cfg.overrides.connectionDuration
  ELSE IF "connection" \in cfg.skippedPhases THEN 0
  ELSE IF cfg.injectionType = "AUTOCONSUMPTION" THEN 5
  ELSE IF cfg.powerKWc <= 36 THEN 6
  ELSE IF cfg.powerKWc <= 250 THEN 9
  ELSE IF cfg.powerKWc <= 1000 THEN 12
  ELSE 18

connectionDurationOf(cfg) ==
  LET sized ==
        IF "connectionDuration" \in DOMAIN cfg.overrides
        THEN cfg.overrides.connectionDuration
        ELSE IF cfg.injectionType = "AUTOCONSUMPTION" THEN 5
        ELSE IF cfg.powerKWc <= 36 THEN 6
        ELSE IF cfg.powerKWc <= 250 THEN 9
        ELSE IF cfg.powerKWc <= 1000 THEN 12
        ELSE 18
  IN  IF "connection" \in cfg.skippedPhases THEN 0 ELSE sized

\* 5. Construction
workMonthsNeededOf(cfg) ==
  IF "constructionDuration" \in DOMAIN cfg.overrides
  THEN cfg.overrides.constructionDuration
  ELSE IF cfg.powerKWc > 2000 THEN 6
  ELSE IF cfg.powerKWc > 500 THEN 4
  ELSE 3

targetConstructionEndOf(connectionEnd) ==
  setDate(connectionEnd, getDate(connectionEnd) - 15)

\* mutant: the safety bound of the backward loop is off by one
RECURSIVE BackwardWalk_OffByOne(_, _, _, _)
BackwardWalk_OffByOne(cursor, validMonthsFound, protection, workMonthsNeeded) ==
  IF validMonthsFound < workMonthsNeeded /\ protection <= 36
  THEN LET prevMonth == subMonths(cursor, 1)
       IN  BackwardWalk_OffByOne(prevMonth,
                        IF ~isRestrictedMonth(prevMonth)
                        THEN validMonthsFound + 1 ELSE validMonthsFound,
                        protection + 1, workMonthsNeeded)
  ELSE [cursor |-> cursor, valid |-> validMonthsFound,
        protection |-> protection]

\* the backward seasonality loop, one iteration per unfolding
RECURSIVE BackwardWalk(_, _, _, _)
BackwardWalk(cursor, validMonthsFound, protection, workMonthsNeeded) ==
  IF validMonthsFound < workMonthsNeeded /\ protection < 36
  THEN LET prevMonth == subMonths(cursor, 1)
       IN  BackwardWalk(prevMonth,
                        IF ~isRestrictedMonth(prevMonth)
                        THEN validMonthsFound + 1 ELSE validMonthsFound,
                        protection + 1, workMonthsNeeded)
  ELSE [cursor |-> cursor, valid |-> validMonthsFound,
        protection |-> protection]

\* backward placement of constructionStartDate from the target end
backwardPlacement(cfg, targetConstructionEnd, workMonthsNeeded) ==
  IF cfg.isSubcontracted
  THEN [cursor |-> subMonths(targetConstructionEnd, workMonthsNeeded),
        valid |-> 0, protection |-> 0]
  ELSE BackwardWalk(targetConstructionEnd, 0, 0, workMonthsNeeded)

\* the forward seasonality loop, one iteration per unfolding
RECURSIVE ForwardWalk(_, _, _, _)
ForwardWalk(cursor, validMonthsAdded, protection, workMonthsNeeded) ==
  IF validMonthsAdded < workMonthsNeeded /\ protection < 36
  THEN ForwardWalk(addMonths(cursor, 1),
                   IF ~isRestrictedMonth(cursor)
                   THEN validMonthsAdded + 1 ELSE validMonthsAdded,
                   protection + 1, workMonthsNeeded)
  ELSE [cursor |-> cursor, valid |-> validMonthsAdded,
        protection |-> protection]

\* forward pass of the repair: the actual construction end from the new start
forwardPass(cfg, constructionStartDate, workMonthsNeeded) ==
  IF cfg.isSubcontracted
  THEN [cursor |-> addMonths(constructionStartDate, workMonthsNeeded),
        valid |-> 0, protection |-> 0]
  ELSE ForwardWalk(constructionStartDate, 0, 0, workMonthsNeeded)

\* mutant: the repair moves the connection end and leaves its start
repairedConnection_KeepsStart(cfg, connectionDuration, connectionStart, connectionEnd, actualConstructionEnd) ==
  LET newConnectionEnd ==
        setDate(actualConstructionEnd, getDate(actualConstructionEnd) + 15)
  IN  IF "connection" \notin cfg.skippedPhases
      THEN [start |-> connectionStart, end |-> newConnectionEnd]
      ELSE [start |-> connectionStart, end |-> connectionEnd]

\* the connection window after the repair
repairedConnection(cfg, connectionDuration, connectionStart, connectionEnd, actualConstructionEnd) ==
  LET newConnectionEnd ==
        setDate(actualConstructionEnd, getDate(actualConstructionEnd) + 15)
  IN  IF "connection" \notin cfg.skippedPhases
      THEN [start |-> subMonths(newConnectionEnd, connectionDuration),
            end |-> newConnectionEnd]
      ELSE [start |-> connectionStart, end |-> connectionEnd]

\* mutant: the constraint check never moves the start
repairedStart_NoShift(constructionStartDate, securityLockDate) ==
  constructionStartDate

\* constraint check: construction cannot start before the security lock
repairedStart(constructionStartDate, securityLockDate) ==
  IF constructionStartDate < securityLockDate
  THEN securityLockDate ELSE constructionStartDate

\* mutant: the duration is measured to the end of the construction
constructionRangeOf_ToConstructionEnd(constructionStartDate, connectionEnd) ==
  DateRange(constructionStartDate, connectionEnd - 15,
            diffMonths(constructionStartDate, connectionEnd - 15))

\* final construction range: measured to the connection end
constructionRangeOf(constructionStartDate, connectionEnd) ==
  DateRange(constructionStartDate, connectionEnd - 15,
            diffMonths(constructionStartDate, connectionEnd))

\* mutant: the commercial-operation date is 30 days after the connection
codDateOf_ThirtyDays(connectionEnd) == connectionEnd + 30

\* 6. Operation: the commercial-operation date
codDateOf(connectionEnd) == addMonths(connectionEnd, 1)

\* the returned PhaseResult, from the values l of the local variables
PhaseResult(l) ==
  [negotiation |-> l.negotiationRange,
   urbanism |-> l.urbanRange,
   aoCre |-> l.creRange,
   leaseManagement |-> l.leaseRange,
   connection |-> DateRange(l.connectionStart, l.connectionEnd,
                            l.connectionDuration),
   construction |-> l.constructionRange,
   operation |-> DateRange(l.codDate, addMonths(l.codDate, 24), 24),
   milestones |->
     [loi |-> IF l.negotiationRange # None THEN Some(l.T0) ELSE None,
      signature |-> l.T0,
      urbanismOk |-> IF l.urbanRange # None THEN Some(l.urbanEnd) ELSE None,
      laureate |-> IF l.creRange # None
                   THEN Some(Get(l.creRange).end) ELSE None,
      leaseSigned |-> IF l.leaseRange # None
                      THEN Some(Get(l.leaseRange).end) ELSE None,
      constructionCompletion |-> Some(l.constructionRange.end),
      cod |-> Some(l.codDate)],
   totalDurationMonths |->
     diffMonths(IF l.negotiationRange # None
                THEN Get(l.negotiationRange).start ELSE l.T0,
                l.codDate)]

(***************************************************************************)
(* Inputs                                                                  *)
(***************************************************************************)

T0Year == 2025

T0Days == {1, 15, 20, 31}

DaysInMonth(y, m) ==
  DaysFromCivil(IF m = 12 THEN y + 1 ELSE y, IF m = 12 THEN 1 ELSE m + 1, 1)
    - DaysFromCivil(y, m, 1)

\* the signature dates: valid civil dates, as the date input yields them
T0Dates ==
  {iso \in [y : {T0Year}, m : 1..12, d : T0Days] :
     iso.d <= DaysInMonth(iso.y, iso.m)}

\* both sides of every power threshold of the engine
Powers ==
  {36, 37, 100, 101, 250, 251, 500, 501, 1000, 1001, 2000, 2001, 3000, 3001}

\* bounds of the duration overrides (whole months; negative and zero
\* overrides are not rejected by the engine)
MaxOverride == 2

\* work overrides around and beyond the 36-step bound of the walks
MaxWorkOverride == 40

DurationOverrides == -1..MaxOverride

WorkOverrides == DurationOverrides \cup {27, 28, MaxWorkOverride}

OverrideValues(f) ==
  IF f = "constructionDuration" THEN WorkOverrides ELSE DurationOverrides

NoOverrides == [f \in {} |-> 0]

\* the override maps over the fields of dom
OverridesOver(dom) ==
  {o \in [dom -> WorkOverrides] : \A f \in dom : o[f] \in OverrideValues(f)}

\* no override, one overridden field, or the connection and construction
\* durations overridden together
OverrideMaps ==
  UNION {OverridesOver(dom) :
           dom \in {{}} \cup {{f} : f \in PhaseOverride}
                     \cup {{"connectionDuration", "constructionDuration"}}}

ConfigSet(dates, powers, typologies, overrideSet, skipSet) ==
  [signatureDate : dates, powerKWc : powers, typology : typologies,
   injectionType : InjectionType, investmentModel : InvestmentModel,
   isSubcontracted : BOOLEAN, overrides : overrideSet,
   skippedPhases : skipSet]

\* every signature date and power, nothing skipped or overridden
SchedulingConfigs ==
  ConfigSet(T0Dates, Powers, {"ROOF_NEW", "ROOF_EXISTING"},
            {NoOverrides}, {{}})

\* every typology and every combination of skipped phases
SkipConfigs ==
  ConfigSet({iso \in T0Dates : iso.m \in {4, 11} /\ iso.d = 20},
            {100, 101}, ProjectTypology, {NoOverrides},
            SUBSET SkippedPhases)

\* the overrides, alone and with the connection or construction skipped
OverrideConfigs ==
  ConfigSet({iso \in T0Dates : iso.m \in {4, 11} /\ iso.d \in {1, 20}},
            {501}, {"ROOF_EXISTING"}, OverrideMaps,
            {{}, {"connection"}, {"construction"}})

\* a connection that ends before it starts, with nothing before it: every
\* phase up to the lock skipped, construction skipped or not
DegenerateConfigs ==
  ConfigSet({iso \in T0Dates : iso.m \in {4, 11} /\ iso.d \in {1, 20}},
            {501}, {"ROOF_EXISTING"}, {[connectionDuration |-> -3]},
            {{"negotiation", "urbanism", "aoCre", "leaseManagement"} \cup s :
               s \in {{}, {"construction"}}})

\* the worked scenario: signature on 2025-03-01, 200 kWc on an existing roof
ScenarioConfigs ==
  ConfigSet({[y |-> 2025, m |-> 3, d |-> 1]}, {200}, {"ROOF_EXISTING"},
            {NoOverrides}, {{}})

Configs ==
  SchedulingConfigs \cup SkipConfigs \cup OverrideConfigs
    \cup DegenerateConfigs \cup ScenarioConfigs

(***************************************************************************)
(* State machine: one run of calculateProjectTimeline on a drawn           *)
(* configuration.  locals holds the function's local variables, pc its     *)
(* position, result the returned PhaseResult.  locals also keeps the       *)
(* connection window as first placed, the start as placed backward and the *)
(* counters of the two loops.                                              *)
(***************************************************************************)

NoResult == [pending |-> TRUE]

Init ==
  /\ config \in Configs
  /\ pc = "negotiation"
  /\ locals = NoResult
  /\ result = NoResult

\* T0 and 1. Negotiation
Negotiation ==
  /\ pc = "negotiation"
  /\ locals' =
       [T0 |-> ParseDate(config.signatureDate),
        negotiationRange |->
          negotiationRange(config, ParseDate(config.signatureDate))]
  /\ pc' = "urbanism"
  /\ UNCHANGED <<config, result>>

\* 2. Urbanism
Urbanism ==
  /\ pc = "urbanism"
  /\ locals' = locals @@
       [urbanRange |-> urbanRange(config, locals.T0),
        urbanEnd |-> urbanEndOf(config, locals.T0)]
  /\ pc' = "security"
  /\ UNCHANGED <<config, result>>

\* 3. Security phase: tender and lease
SecurityRanges ==
  /\ pc = "security"
  /\ locals' = locals @@
       [creRange |-> creRange(config, locals.urbanEnd),
        leaseRange |-> leaseRange(config, locals.urbanEnd)]
  /\ pc' = "lock"
  /\ UNCHANGED <<config, result>>

\* the security lock
SecurityLock ==
  /\ pc = "lock"
  /\ locals' = locals @@
       [securityLockDate |->
          securityLockDateOf(locals.creRange, locals.leaseRange,
                             locals.urbanEnd)]
  /\ pc' = "connection"
  /\ UNCHANGED <<config, result>>

\* 4. Connection: sizing, then the initial placement at the lock
ConnectionSizing ==
  /\ pc = "connection"
  /\ locals' = locals @@
       [connectionDuration |-> connectionDurationOf(config)]
  /\ pc' = "placement"
  /\ UNCHANGED <<config, result>>

ConnectionPlacement ==
  /\ pc = "placement"
  /\ locals' = locals @@
       [connectionStart |-> locals.securityLockDate,
        connectionEnd |-> addMonths(locals.securityLockDate,
                                    locals.connectionDuration),
        initialConnectionStart |-> locals.securityLockDate,
        initialConnectionEnd |-> addMonths(locals.securityLockDate,
                                           locals.connectionDuration)]
  /\ pc' = "construction"
  /\ UNCHANGED <<config, result>>

\* mutant: a skipped construction is anchored at the connection end
ConstructionSkipped_AtConnectionEnd ==
  /\ pc = "construction"
  /\ "construction" \in config.skippedPhases
  /\ locals' = locals @@
       [constructionRange |->
          DateRange(locals.connectionEnd, locals.connectionEnd, 0),
        repaired |-> FALSE]
  /\ pc' = "operation"
  /\ UNCHANGED <<config, result>>

\* 5. Construction, skipped: a zero-length range at the connection start
ConstructionSkipped ==
  /\ pc = "construction"
  /\ "construction" \in config.skippedPhases
  /\ locals' = locals @@
       [constructionRange |->
          DateRange(locals.connectionStart, locals.connectionStart, 0),
        repaired |-> FALSE]
  /\ pc' = "operation"
  /\ UNCHANGED <<config, result>>

\* 5. Construction: the work needed and the target end
ConstructionTarget ==
  /\ pc = "construction"
  /\ "construction" \notin config.skippedPhases
  /\ locals' = locals @@
       [workMonthsNeeded |-> workMonthsNeededOf(config),
        targetConstructionEnd |->
          targetConstructionEndOf(locals.connectionEnd)]
  /\ pc' = "backward"
  /\ UNCHANGED <<config, result>>

\* the backward placement of the start
BackwardPlacement ==
  /\ pc = "backward"
  /\ locals' = locals @@
       [back |-> backwardPlacement(config, locals.targetConstructionEnd,
                                   locals.workMonthsNeeded)]
  /\ pc' = "check"
  /\ UNCHANGED <<config, result>>

\* constraint check, the start is not before the lock: nothing to repair
NoRepair ==
  /\ pc = "check"
  /\ ~(locals.back.cursor < locals.securityLockDate)
  /\ locals' = locals @@
       [placedStart |-> locals.back.cursor,
        constructionStartDate |->
          repairedStart(locals.back.cursor, locals.securityLockDate),
        repaired |-> FALSE]
  /\ pc' = "range"
  /\ UNCHANGED <<config, result>>

\* constraint check, the start is before the lock: shift the start, then
\* the forward pass
RepairStart ==
  /\ pc = "check"
  /\ locals.back.cursor < locals.securityLockDate
  /\ locals' = locals @@
       [placedStart |-> locals.back.cursor,
        constructionStartDate |->
          repairedStart(locals.back.cursor, locals.securityLockDate),
        fwd |-> forwardPass(config,
                            repairedStart(locals.back.cursor,
                                          locals.securityLockDate),
                            locals.workMonthsNeeded),
        repaired |-> TRUE]
  /\ pc' = "propagate"
  /\ UNCHANGED <<config, result>>

\* the repair updates the connection window
RepairConnection ==
  /\ pc = "propagate"
  /\ locals' =
       [connectionStart |->
          repairedConnection(config, locals.connectionDuration,
                             locals.connectionStart, locals.connectionEnd,
                             locals.fwd.cursor).start,
        connectionEnd |->
          repairedConnection(config, locals.connectionDuration,
                             locals.connectionStart, locals.connectionEnd,
                             locals.fwd.cursor).end] @@ locals
  /\ pc' = "range"
  /\ UNCHANGED <<config, result>>

\* the final construction range
ConstructionRange ==
  /\ pc = "range"
  /\ locals' = locals @@
       [constructionRange |->
          constructionRangeOf(locals.constructionStartDate,
                              locals.connectionEnd)]
  /\ pc' = "operation"
  /\ UNCHANGED <<config, result>>

\* 6. Operation (COD)
Operation ==
  /\ pc = "operation"
  /\ locals' = locals @@ [codDate |-> codDateOf(locals.connectionEnd)]
  /\ pc' = "return"
  /\ UNCHANGED <<config, result>>

\* the return statement
Return ==
  /\ pc = "return"
  /\ result' = PhaseResult(locals)
  /\ pc' = "done"
  /\ UNCHANGED <<config, locals>>

Next ==
  \/ Negotiation
  \/ Urbanism
  \/ SecurityRanges
  \/ SecurityLock
  \/ ConnectionSizing
  \/ ConnectionPlacement
  \/ ConstructionSkipped
  \/ ConstructionTarget
  \/ BackwardPlacement
  \/ NoRepair
  \/ RepairStart
  \/ RepairConnection
  \/ ConstructionRange
  \/ Operation
  \/ Return

Spec == Init /\ [][Next]_vars

(***************************************************************************)
(* State machine of the date utilities alone: addMonths applied to a drawn *)
(* date and number of months, then applied to its result with the          *)
(* opposite number.  config holds the two arguments, locals the            *)
(* intermediate date, result the date after the round trip.                *)
(***************************************************************************)

\* bound of the number of months, in both directions
MaxMonths == 14

RoundTripDays == {1, 15, 28, 29, 30, 31}

\* valid civil dates of a leap year and of a common year
RoundTripDates ==
  {iso \in [y : {T0Year - 1, T0Year}, m : 1..12, d : RoundTripDays] :
     iso.d <= DaysInMonth(iso.y, iso.m)}

InitAddMonths ==
  /\ config \in [date : RoundTripDates, months : -MaxMonths..MaxMonths]
  /\ pc = "addMonths"
  /\ locals = NoResult
  /\ result = NoResult

\* addMonths(d, n)
AddMonthsForth ==
  /\ pc = "addMonths"
  /\ locals' = [forth |-> addMonths(ParseDate(config.date), config.months)]
  /\ pc' = "addMonthsBack"
  /\ UNCHANGED <<config, result>>

\* addMonths(addMonths(d, n), -n)
AddMonthsBack ==
  /\ pc = "addMonthsBack"
  /\ result' = [roundTrip |-> addMonths(locals.forth, -config.months)]
  /\ pc' = "done"
  /\ UNCHANGED <<config, locals>>

NextAddMonths ==
  \/ AddMonthsForth
  \/ AddMonthsBack

SpecAddMonths == InitAddMonths /\ [][NextAddMonths]_vars

(***************************************************************************)
(* State machine of the two seasonality loops alone: one walk, backward    *)
(* from a drawn target end or forward from a drawn start, for a drawn      *)
(* workMonthsNeeded.  config holds the cursor's first date, the work       *)
(* needed and the direction; result the cursor and the counters at the     *)
(* exit of the loop.                                                       *)
(***************************************************************************)

\* bound of workMonthsNeeded in the walks: past the 27 productive months of
\* three years
MaxWalkWork == 29

WalkDays == {1, 15, 28, 29, 30, 31}

\* every month of the year as the first position of the cursor
WalkDates ==
  {iso \in [y : {T0Year}, m : 1..12, d : WalkDays] :
     iso.d <= DaysInMonth(iso.y, iso.m)}

InitWalk ==
  /\ config \in [cursor : WalkDates, workMonthsNeeded : 1..MaxWalkWork,
                 backward : BOOLEAN]
  /\ pc = "walk"
  /\ locals = NoResult
  /\ result = NoResult

\* the backward loop, from its entry to its exit
WalkBackward ==
  /\ pc = "walk"
  /\ config.backward
  /\ result' = BackwardWalk(ParseDate(config.cursor), 0, 0,
                            config.workMonthsNeeded)
  /\ pc' = "done"
  /\ UNCHANGED <<config, locals>>

\* the forward loop, from its entry to its exit
WalkForward ==
  /\ pc = "walk"
  /\ ~config.backward
  /\ result' = ForwardWalk(ParseDate(config.cursor), 0, 0,
                           config.workMonthsNeeded)
  /\ pc' = "done"
  /\ UNCHANGED <<config, locals>>

NextWalk ==
  \/ WalkBackward
  \/ WalkForward

SpecWalk == InitWalk /\ [][NextWalk]_vars

(***************************************************************************)
(* State machine of the App component: the project list and the selection. *)
(* locals holds the component's state (projects, currentId), pc whether    *)
(* the component is mounted; config and result are not used.  A project    *)
(* carries its id and the three fields the modelled edits write; the id    *)
(* `prj_${n}` is the pair <<"prj", n>>.                                     *)
(***************************************************************************)

\* bound of the length of the project list
MaxProjects == 3

\* the template string `prj_${id}`
PrjId(id) == <<"prj", id>>

\* default factory
createNewProject(id) ==
  [id |-> PrjId(id), isSubcontracted |-> FALSE, overrides |-> NoOverrides,
   skippedPhases |-> {}]

\* useState initialisers, nothing saved: one default project, selected
InitApp ==
  /\ locals = [projects |-> <<createNewProject(1)>>,
               currentId |-> createNewProject(1).id]
  /\ pc = "App"
  /\ config = NoResult
  /\ result = NoResult

\* projects.filter(p => p.id !== id)
Remaining(projects, id) == SelectSeq(projects, LAMBDA p : p.id # id)

\* the number the next project is created with
NewId(projects) == Len(projects) + 1

addProject ==
  /\ pc = "App"
  /\ Len(locals.projects) < MaxProjects
  /\ locals' =
       [projects |-> Append(locals.projects,
                            createNewProject(NewId(locals.projects))),
        currentId |-> createNewProject(NewId(locals.projects)).id]
  /\ UNCHANGED <<config, pc, result>>

\* deleting the last project is refused; when nothing remains, reading
\* remaining[0].id throws after setProjects and the next render fails
deleteProject ==
  /\ pc = "App"
  /\ \E i \in 1..Len(locals.projects) :
       LET id == locals.projects[i].id
           remaining == Remaining(locals.projects, id)
       IN  /\ Len(locals.projects) > 1
           /\ locals' =
                [projects |-> remaining,
                 currentId |->
                   IF locals.currentId = id /\ remaining # <<>>
                   THEN remaining[1].id ELSE locals.currentId]
           /\ pc' = IF remaining = <<>> THEN "crashed" ELSE "App"
  /\ UNCHANGED <<config, result>>

\* a click on a project of the list
selectProject ==
  /\ pc = "App"
  /\ \E i \in 1..Len(locals.projects) :
       locals' = [locals EXCEPT !.currentId = locals.projects[i].id]
  /\ UNCHANGED <<config, pc, result>>

\* handleInputChange('isSubcontracted', value): every project whose id is
\* currentId is replaced
handleInputChange ==
  /\ pc = "App"
  /\ \E value \in BOOLEAN :
       locals' =
         [locals EXCEPT !.projects =
            [i \in 1..Len(locals.projects) |->
               IF locals.projects[i].id = locals.currentId
               THEN [locals.projects[i] EXCEPT !.isSubcontracted = value]
               ELSE locals.projects[i]]]
  /\ UNCHANGED <<config, pc, result>>

\* parseFloat of the text of an override field: NaN for the empty text
parseFloat(value) == IF value = "4" THEN Some(4) ELSE None

\* the overrides with one field set, or undefined when the number is NaN
WithOverride(overrides, field, num) ==
  [f \in (DOMAIN overrides \ {field})
           \cup (IF num = None THEN {} ELSE {field}) |->
     IF f = field THEN Get(num) ELSE overrides[f]]

handleOverrideChange ==
  /\ pc = "App"
  /\ \E value \in {"", "4"} :
       locals' =
         [locals EXCEPT !.projects =
            [i \in 1..Len(locals.projects) |->
               IF locals.projects[i].id # locals.currentId
               THEN locals.projects[i]
               ELSE [locals.projects[i] EXCEPT !.overrides =
                       WithOverride(locals.projects[i].overrides,
                                    "constructionDuration",
                                    parseFloat(value))]]]
  /\ UNCHANGED <<config, pc, result>>

\* the skipped phases with one flag negated
WithToggledSkip(skippedPhases, phase) ==
  IF phase \in skippedPhases
  THEN skippedPhases \ {phase} ELSE skippedPhases \cup {phase}

toggleSkipPhase ==
  /\ pc = "App"
  /\ \E phase \in {"construction"} :
       locals' =
         [locals EXCEPT !.projects =
            [i \in 1..Len(locals.projects) |->
               IF locals.projects[i].id # locals.currentId
               THEN locals.projects[i]
               ELSE [locals.projects[i] EXCEPT !.skippedPhases =
                       WithToggledSkip(locals.projects[i].skippedPhases,
                                       phase)]]]
  /\ UNCHANGED <<config, pc, result>>

NextApp ==
  \/ addProject
  \/ deleteProject
  \/ selectProject
  \/ handleInputChange
  \/ handleOverrideChange
  \/ toggleSkipPhase

SpecApp == InitApp /\ [][NextApp]_vars

(***************************************************************************)
(* Properties                                                              *)
(***************************************************************************)

Done == pc = "done"

Skipped(phase) == phase \in config.skippedPhases

Overridden(f) == f \in DOMAIN config.overrides

NonNegativeDurations == \A f \in DOMAIN config.overrides : config.overrides[f] >= 0

\* C1: when the connection phase is not skipped, connection.start of the
\* result is never earlier than securityLockDate, the repaired window
\* included.
C1_ConnectionNotBeforeLock ==
  (Done /\ ~Skipped("connection"))
    => result.connection.start >= locals.securityLockDate

\* C2: when construction is not skipped, construction.start is never earlier
\* than securityLockDate, and it equals securityLockDate exactly whenever
\* the backward placement lands strictly before it.
C2_ConstructionStartNotBeforeLock ==
  (Done /\ ~Skipped("construction"))
    => /\ result.construction.start >= locals.securityLockDate
       /\ (locals.placedStart < locals.securityLockDate
             => result.construction.start = locals.securityLockDate)

\* a self-executed project whose backward walk landed before the lock
C2_Witness ==
  /\ Done /\ ~Skipped("construction") /\ ~config.isSubcontracted
  /\ locals.placedStart < locals.securityLockDate
  /\ result.construction.start = locals.securityLockDate

\* C3: when the repair fires and the connection is not skipped, the
\* connection window ends 15 days after the forward-computed construction
\* end, starts connectionDuration months before its end, and keeps the
\* duration it had before the repair.
C3_RepairedConnectionWindow ==
  (Done /\ locals.repaired /\ ~Skipped("connection"))
    => /\ result.connection.end = locals.fwd.cursor + 15
       /\ result.connection.start =
            subMonths(result.connection.end, result.connection.durationMonths)
       /\ result.connection.durationMonths = locals.connectionDuration
       /\ locals.initialConnectionEnd =
            addMonths(locals.initialConnectionStart,
                      result.connection.durationMonths)

\* a repaired project whose connection window moved
C3_Witness ==
  /\ Done /\ locals.repaired /\ ~Skipped("connection")
  /\ result.connection.end # locals.initialConnectionEnd
  /\ result.connection.start # locals.initialConnectionStart

\* C4: when the repair fires and the connection is not skipped, the repaired
\* connection end is not earlier than the initially placed one, and it moves
\* by the amount the construction end moves from targetConstructionEnd to
\* the forward-computed end.
C4_RepairShiftsConnectionForward ==
  (Done /\ locals.repaired /\ ~Skipped("connection"))
    => /\ result.connection.end >= locals.initialConnectionEnd
       /\ result.connection.end - locals.initialConnectionEnd =
            locals.fwd.cursor - locals.targetConstructionEnd

PhaseResultFields ==
  {"negotiation", "urbanism", "aoCre", "leaseManagement", "connection",
   "construction", "operation", "milestones", "totalDurationMonths"}

IsDateRange(r) ==
  /\ DOMAIN r = {"start", "end", "durationMonths"}
  /\ r.start \in Int /\ r.end \in Int /\ r.durationMonths \in Int

\* the result has every mandatory part of a PhaseResult and nothing else
CompleteResult ==
  /\ DOMAIN result = PhaseResultFields
  /\ IsDateRange(result.connection)
  /\ IsDateRange(result.construction)
  /\ IsDateRange(result.operation)
  /\ result.milestones.signature \in Int
  /\ result.milestones.constructionCompletion # None
  /\ result.milestones.cod # None
  /\ result.totalDurationMonths \in Int

\* the runs in which the backward loop, and the forward loop, are executed
BackwardWalked == ~Skipped("construction") /\ ~config.isSubcontracted

ForwardWalked == BackwardWalked /\ locals.repaired

\* a loop left with its counters w: the bound is respected, and the loop
\* stopped because the work was found or because the bound was reached
WalkTerminated(w, work) ==
  /\ w.protection \in 0..36
  /\ w.valid <= w.protection
  /\ (w.valid >= work \/ w.protection = 36)

\* C5: for every workMonthsNeeded (large, zero or negative overrides
\* included) the backward and the forward walk each stop after at most 36
\* iterations and the engine returns a complete PhaseResult; when the bound
\* is reached the result carries fewer productive months than requested and
\* nothing in it signals the truncation.
C5_WalksBoundedAndTotal ==
  Done
    => /\ CompleteResult
       /\ (BackwardWalked
             => /\ WalkTerminated(locals.back, locals.workMonthsNeeded)
                /\ locals.placedStart = locals.back.cursor)
       /\ (ForwardWalked
             => /\ WalkTerminated(locals.fwd, locals.workMonthsNeeded)
                /\ result.construction.end = locals.fwd.cursor
                     \/ Skipped("connection"))

\* both walks of one run were cut by the bound
C5_Witness ==
  /\ Done /\ ~config.isSubcontracted /\ ~Skipped("construction")
  /\ locals.workMonthsNeeded > 36
  /\ locals.back.protection = 36 /\ locals.back.valid < locals.workMonthsNeeded
  /\ locals.repaired
  /\ locals.fwd.protection = 36 /\ locals.fwd.valid < locals.workMonthsNeeded

MonthIndex(date) == getFullYear(date) * 12 + getMonth(date)

RestrictedIndex(i) == (i % 12) \in {0, 3, 7}

\* the non-restricted months among the k calendar months before that of t
ProductiveBefore(t, k) ==
  Cardinality({i \in 1..k : ~RestrictedIndex(MonthIndex(t) - i)})

\* the smallest span of calendar months before t holding work productive ones
SmallestSpan(t, work) ==
  CHOOSE k \in 1..36 :
    /\ ProductiveBefore(t, k) = work
    /\ \A j \in 1..(k - 1) : ProductiveBefore(t, j) < work

\* C6: for a self-executed, non-skipped construction with workMonthsNeeded
\* >= 1, the bound not reached and no repair, constructionStart lies exactly
\* k whole months before targetConstructionEnd, k being the smallest number
\* of calendar months stepped onto that holds workMonthsNeeded non-restricted
\* ones.
C6_BackwardWalkSpan ==
  (/\ Done /\ ~Skipped("construction") /\ ~config.isSubcontracted
   /\ locals.workMonthsNeeded >= 1
   /\ locals.back.valid = locals.workMonthsNeeded
   /\ ~locals.repaired)
    => LET k == SmallestSpan(locals.targetConstructionEnd,
                             locals.workMonthsNeeded)
       IN  /\ MonthIndex(result.construction.start) =
                MonthIndex(locals.targetConstructionEnd) - k
           /\ getDate(result.construction.start) =
                getDate(locals.targetConstructionEnd)

Present(o) == o # None

\* C7: each optional milestone (loi, urbanismOk, laureate, leaseSigned,
\* constructionCompletion) is present if and only if its owning phase
\* (negotiation, urbanism, aoCre, leaseManagement, construction) was not
\* skipped; a skipped phase contributes neither a range nor a milestone.
C7_MilestoneIffNotSkipped ==
  Done
    => /\ Present(result.milestones.loi) <=> ~Skipped("negotiation")
       /\ Present(result.milestones.urbanismOk) <=> ~Skipped("urbanism")
       /\ Present(result.milestones.laureate) <=> ~Skipped("aoCre")
       /\ Present(result.milestones.leaseSigned)
            <=> ~Skipped("leaseManagement")
       /\ Present(result.milestones.constructionCompletion)
            <=> ~Skipped("construction")
       /\ Skipped("negotiation") => ~Present(result.negotiation)
       /\ Skipped("urbanism") => ~Present(result.urbanism)
       /\ Skipped("aoCre") => ~Present(result.aoCre)
       /\ Skipped("leaseManagement") => ~Present(result.leaseManagement)

TenderEligible ==
  config.powerKWc > 100 /\ config.injectionType = "TOTAL_INJECTION"

LeaseEligible == config.investmentModel = "OWN_INVESTMENT"

\* C7 amended: loi and urbanismOk are present iff negotiation, resp.
\* urbanism, is not skipped; laureate and leaseSigned are present iff their
\* range is, that is iff the phase is not skipped and is eligible (tender:
\* power > 100 and total injection; lease: OWN_INVESTMENT);
\* constructionCompletion is always present and equals construction.end
\* (the connection start when construction is skipped); a skipped
\* negotiation, urbanism, tender or lease contributes neither a range nor a
\* milestone.
C7_MilestoneIffRangePresent ==
  Done
    => /\ Present(result.milestones.loi) <=> ~Skipped("negotiation")
       /\ Present(result.negotiation) <=> ~Skipped("negotiation")
       /\ Present(result.milestones.urbanismOk) <=> ~Skipped("urbanism")
       /\ Present(result.urbanism) <=> ~Skipped("urbanism")
       /\ Present(result.milestones.laureate)
            <=> (~Skipped("aoCre") /\ TenderEligible)
       /\ Present(result.aoCre) <=> Present(result.milestones.laureate)
       /\ Present(result.milestones.leaseSigned)
            <=> (~Skipped("leaseManagement") /\ LeaseEligible)
       /\ Present(result.leaseManagement)
            <=> Present(result.milestones.leaseSigned)
       /\ result.milestones.constructionCompletion
            = Some(result.construction.end)
       /\ Skipped("construction")
            => result.construction.end = result.connection.start

\* a tender that is not skipped and has no milestone, next to a skipped
\* construction that has one
C7_Witness ==
  /\ Done
  /\ ~Skipped("aoCre") /\ ~Present(result.milestones.laureate)
  /\ config.powerKWc = 100 /\ config.injectionType = "TOTAL_INJECTION"
  /\ Skipped("construction")
  /\ Present(result.milestones.constructionCompletion)

\* C8: skipping the permitting phase removes the urbanism range and the
\* urbanismOk milestone and leaves the anchor defined: urbanEnd is T0, an
\* included tender or lease starts exactly at T0, and securityLockDate is
\* computed from T0.
C8_SkippedUrbanismAnchorsAtT0 ==
  (Done /\ Skipped("urbanism"))
    => LET T0 == ParseDate(config.signatureDate)
           tenderEnd == IF Present(result.aoCre)
                        THEN Get(result.aoCre).end ELSE T0
           leaseEnd == IF Present(result.leaseManagement)
                       THEN Get(result.leaseManagement).end ELSE T0
       IN  /\ ~Present(result.urbanism)
           /\ ~Present(result.milestones.urbanismOk)
           /\ locals.urbanEnd = T0
           /\ Present(result.aoCre) => Get(result.aoCre).start = T0
           /\ Present(result.leaseManagement)
                => Get(result.leaseManagement).start = T0
           /\ locals.securityLockDate = Max(tenderEnd, leaseEnd)

\* permitting skipped, tender and lease both included
C8_Witness ==
  /\ Done /\ Skipped("urbanism")
  /\ Present(result.aoCre) /\ Present(result.leaseManagement)
  /\ Get(result.aoCre).start = result.milestones.signature
  /\ locals.securityLockDate > result.milestones.signature

\* C9: securityLockDate is the later of (tender end if the tender range is
\* present, else urbanEnd) and (lease end if the lease range is present,
\* else urbanEnd); with non-negative durations it is never earlier than
\* urbanEnd nor T0; the initial connection start equals it.
C9_SecurityLockIsLaterEnd ==
  Done
    => LET tenderEnd == IF Present(result.aoCre)
                        THEN Get(result.aoCre).end ELSE locals.urbanEnd
           leaseEnd == IF Present(result.leaseManagement)
                       THEN Get(result.leaseManagement).end
                       ELSE locals.urbanEnd
       IN  /\ locals.securityLockDate >= tenderEnd
           /\ locals.securityLockDate >= leaseEnd
           /\ locals.securityLockDate \in {tenderEnd, leaseEnd}
           /\ NonNegativeDurations
                => /\ locals.securityLockDate >= locals.urbanEnd
                   /\ locals.securityLockDate >= locals.T0
           /\ locals.initialConnectionStart = locals.securityLockDate

\* tender and lease both present, the lease ending strictly later
C9_Witness ==
  /\ Done /\ Present(result.aoCre) /\ Present(result.leaseManagement)
  /\ Get(result.leaseManagement).end > Get(result.aoCre).end
  /\ locals.securityLockDate = Get(result.leaseManagement).end
  /\ locals.initialConnectionStart = locals.securityLockDate

\* C10: connection.durationMonths is 0 if the connection phase is skipped
\* (even with an override); otherwise the override if present; otherwise 5
\* for self-consumption; otherwise by power tier with inclusive upper
\* thresholds: <= 36 gives 6, <= 250 gives 9, <= 1000 gives 12, above 18.
C10_ConnectionDurationTable ==
  Done
    => LET dur == result.connection.durationMonths
           P == config.powerKWc
       IN  /\ Skipped("connection") => dur = 0
           /\ (~Skipped("connection") /\ Overridden("connectionDuration"))
                => dur = config.overrides.connectionDuration
           /\ (/\ ~Skipped("connection")
               /\ ~Overridden("connectionDuration")
               /\ config.injectionType = "AUTOCONSUMPTION") => dur = 5
           /\ (/\ ~Skipped("connection")
               /\ ~Overridden("connectionDuration")
               /\ config.injectionType = "TOTAL_INJECTION")
                => /\ P <= 36 => dur = 6
                   /\ (36 < P /\ P <= 250) => dur = 9
                   /\ (250 < P /\ P <= 1000) => dur = 12
                   /\ P > 1000 => dur = 18

\* a skipped connection whose override is set and ignored
C10_Witness ==
  /\ Done /\ Skipped("connection") /\ Overridden("connectionDuration")
  /\ config.overrides.connectionDuration > 0
  /\ result.connection.durationMonths = 0

\* C11: the tender (aoCre) range and its laureate milestone are present if
\* and only if the tender is not skipped, the power is strictly greater than
\* 100 kWc and the injection mode is total injection; a power of exactly 100
\* never yields a tender; when present the tender runs from urbanEnd to
\* urbanEnd plus its duration (4 months unless overridden).
C11_TenderPresence ==
  Done
    => /\ Present(result.aoCre)
            <=> (/\ ~Skipped("aoCre")
                 /\ config.powerKWc > 100
                 /\ config.injectionType = "TOTAL_INJECTION")
       /\ Present(result.milestones.laureate) <=> Present(result.aoCre)
       /\ config.powerKWc = 100 => ~Present(result.aoCre)
       /\ Present(result.aoCre)
            => /\ Get(result.aoCre).start = locals.urbanEnd
               /\ Get(result.aoCre).durationMonths =
                    (IF Overridden("creDuration")
                     THEN config.overrides.creDuration ELSE 4)
               /\ Get(result.aoCre).end =
                    addMonths(locals.urbanEnd,
                              Get(result.aoCre).durationMonths)
               /\ result.milestones.laureate = Some(Get(result.aoCre).end)

\* a tender just above the threshold, with the default duration
C11_Witness ==
  /\ Done /\ config.powerKWc = 101 /\ ~Overridden("creDuration")
  /\ Present(result.aoCre)
  /\ Get(result.aoCre).durationMonths = 4
  /\ Get(result.aoCre).end > Get(result.aoCre).start
  /\ result.milestones.laureate = Some(Get(result.aoCre).end)

\* C12: the lease-management range and its leaseSigned milestone are present
\* if and only if lease management is not skipped and the investment model
\* is the identifier OWN_INVESTMENT; power and injection mode have no
\* influence on its presence.
C12_LeasePresence ==
  Done
    => /\ Present(result.leaseManagement)
            <=> (/\ ~Skipped("leaseManagement")
                 /\ config.investmentModel = "OWN_INVESTMENT")
       /\ Present(result.milestones.leaseSigned)
            <=> Present(result.leaseManagement)
       /\ Present(result.leaseManagement)
            => result.milestones.leaseSigned
                 = Some(Get(result.leaseManagement).end)

\* a lease on a self-consumption project of 100 kWc, which has no tender
C12_Witness ==
  /\ Done /\ config.investmentModel = "OWN_INVESTMENT"
  /\ config.powerKWc = 100 /\ config.injectionType = "AUTOCONSUMPTION"
  /\ ~Present(result.aoCre)
  /\ Present(result.leaseManagement)
  /\ Present(result.milestones.leaseSigned)

\* C13: when construction is skipped, the construction range is zero-length
\* (start = end = connection start, durationMonths = 0), no repair is
\* attempted, and the connection window is left at its initial placement:
\* connection.start = securityLockDate and connection.end = securityLockDate
\* plus connectionDuration months, whatever isSubcontracted and the
\* construction-duration override.
C13_SkippedConstructionLeavesConnection ==
  (Done /\ Skipped("construction"))
    => /\ result.construction.start = result.connection.start
       /\ result.construction.end = result.connection.start
       /\ result.construction.durationMonths = 0
       /\ ~locals.repaired
       /\ {"back", "fwd", "workMonthsNeeded"} \cap DOMAIN locals = {}
       /\ result.connection.start = locals.securityLockDate
       /\ result.connection.end =
            addMonths(locals.securityLockDate,
                      result.connection.durationMonths)
       /\ result.connection.start = locals.initialConnectionStart
       /\ result.connection.end = locals.initialConnectionEnd

\* a skipped construction of a subcontracted project with an overridden
\* construction duration and a connection of non-zero length
C13_Witness ==
  /\ Done /\ Skipped("construction") /\ config.isSubcontracted
  /\ Overridden("constructionDuration")
  /\ config.overrides.constructionDuration > 0
  /\ result.connection.end > result.connection.start
  /\ result.construction.end = locals.securityLockDate

\* C14: for every configuration the commercial-operation date equals the
\* final (possibly repaired) connection end plus 1 calendar month, the cod
\* milestone equals operation.start, the operation range runs from COD to
\* COD + 24 months with durationMonths 24, and COD is strictly later than
\* the constructionCompletion milestone.
C14_CodOneMonthAfterConnection ==
  Done
    => /\ result.operation.start = addMonths(result.connection.end, 1)
       /\ result.milestones.cod = Some(result.operation.start)
       /\ result.operation.end = addMonths(result.operation.start, 24)
       /\ result.operation.durationMonths = 24
       /\ result.operation.start
            > Get(result.milestones.constructionCompletion)

\* C14 amended: as C14, with COD strictly later than constructionCompletion
\* only when construction is not skipped or the connection duration is not
\* negative.
C14_CodLaterUnlessNegativeConnection ==
  Done
    => /\ result.operation.start = addMonths(result.connection.end, 1)
       /\ result.milestones.cod = Some(result.operation.start)
       /\ result.operation.end = addMonths(result.operation.start, 24)
       /\ result.operation.durationMonths = 24
       /\ (~Skipped("construction")
             \/ result.connection.durationMonths >= 0)
            => result.operation.start
                 > Get(result.milestones.constructionCompletion)

\* a repaired run: COD follows the moved connection end
C14_Witness ==
  /\ Done /\ locals.repaired
  /\ result.connection.end # locals.initialConnectionEnd
  /\ result.operation.start = addMonths(result.connection.end, 1)
  /\ result.operation.start # addMonths(locals.initialConnectionEnd, 1)
  /\ result.operation.start
       > Get(result.milestones.constructionCompletion)

\* C15: for all configurations, negative duration overrides included,
\* totalDurationMonths is >= 0 and is the number of whole months from the
\* negotiation start (T0 when negotiation is absent) to COD, counted on the
\* (year, month) components only, the day of month ignored, and 0 instead of
\* any negative value.
C15_TotalDurationFloored ==
  Done
    => LET from == IF Present(result.negotiation)
                   THEN Get(result.negotiation).start
                   ELSE result.milestones.signature
           months == MonthIndex(Get(result.milestones.cod))
                       - MonthIndex(from)
       IN  /\ result.totalDurationMonths >= 0
           /\ result.totalDurationMonths = Max(0, months)

\* COD in a calendar month before the month of T0: the total is 0
C15_Witness ==
  /\ Done /\ ~Present(result.negotiation)
  /\ MonthIndex(Get(result.milestones.cod))
       < MonthIndex(result.milestones.signature)
  /\ result.totalDurationMonths = 0

\* C16: for every date d and every whole number of months n,
\* addMonths(addMonths(d, n), -n) has the same calendar month and year as d
\* (only the day of month may differ).
C16_RoundTripKeepsMonth ==
  Done => MonthIndex(result.roundTrip) = MonthIndex(ParseDate(config.date))

\* C16 amended: when addMonths(d, n) keeps the day of month (the day exists
\* in the target month), the round trip reproduces d exactly; when it rolls
\* forward, the round trip lands in the calendar month following that of d,
\* on the day of the rollover.
C16_RoundTripUnlessRollover ==
  Done
    => LET d == ParseDate(config.date)
       IN  /\ getDate(locals.forth) = getDate(d) => result.roundTrip = d
           /\ getDate(locals.forth) # getDate(d)
                => /\ MonthIndex(result.roundTrip) = MonthIndex(d) + 1
                   /\ getDate(result.roundTrip) = getDate(locals.forth)
           /\ getDate(d) <= 28 => result.roundTrip = d

\* 31 January plus one month is 3 March; minus one month is 3 February
C16_Witness ==
  /\ Done
  /\ config.date = [y |-> T0Year, m |-> 1, d |-> 31] /\ config.months = 1
  /\ getMonth(locals.forth) = 2 /\ getDate(locals.forth) = 3
  /\ getMonth(result.roundTrip) = 1 /\ getDate(result.roundTrip) = 3

\* the worked scenario of C17
IsScenario ==
  /\ config.signatureDate = [y |-> 2025, m |-> 3, d |-> 1]
  /\ config.powerKWc = 200
  /\ config.typology = "ROOF_EXISTING"
  /\ config.injectionType = "TOTAL_INJECTION"
  /\ config.investmentModel = "OWN_INVESTMENT"
  /\ ~config.isSubcontracted
  /\ config.skippedPhases = {}
  /\ DOMAIN config.overrides = {}

\* C17: for T0 = 2025-03-01, 200 kWc, existing roof, total injection,
\* OWN_INVESTMENT, not subcontracted, nothing skipped or overridden: urbanism
\* lasts 4 months and ends 2025-07-01; tender and lease are present and end
\* 2025-11-01; securityLockDate is 2025-11-01; the connection lasts 9 months
\* and first ends 2026-08-01; workMonthsNeeded is 3; targetConstructionEnd
\* is 2026-07-17; the backward walk does not count April 2026, so
\* construction starts 2026-03-17, not before the lock: no repair fires and
\* the connection window stays 2025-11-01 to 2026-08-01.
C17_WorkedScenario ==
  (Done /\ IsScenario)
    => /\ Get(result.urbanism).durationMonths = 4
       /\ locals.urbanEnd = DaysFromCivil(2025, 7, 1)
       /\ Present(result.aoCre) /\ Present(result.leaseManagement)
       /\ Get(result.aoCre).end = DaysFromCivil(2025, 11, 1)
       /\ Get(result.leaseManagement).end = DaysFromCivil(2025, 11, 1)
       /\ locals.securityLockDate = DaysFromCivil(2025, 11, 1)
       /\ result.connection.durationMonths = 9
       /\ locals.initialConnectionEnd = DaysFromCivil(2026, 8, 1)
       /\ locals.workMonthsNeeded = 3
       /\ locals.targetConstructionEnd = DaysFromCivil(2026, 7, 17)
       /\ locals.back.protection = 4 /\ locals.back.valid = 3
       /\ result.construction.start = DaysFromCivil(2026, 3, 17)
       /\ ~locals.repaired
       /\ result.connection.start = DaysFromCivil(2025, 11, 1)
       /\ result.connection.end = DaysFromCivil(2026, 8, 1)

\* the run of the worked scenario, completed without repair
C17_Witness ==
  /\ Done /\ IsScenario /\ ~locals.repaired
  /\ locals.back.protection = 4
  /\ getMonth(result.construction.start) = 2
  /\ getFullYear(result.construction.start) = 2026

\* C19: when construction is not skipped, the final construction range ends
\* 15 days before the final connection end (which, when the repair fired and
\* the connection is not skipped, is the actual construction end of the
\* forward pass), the constructionCompletion milestone is that end, and
\* durationMonths is diffMonths(construction.start, connection.end):
\* measured to the connection end, not to the construction end.
C19_ConstructionRangeFromConnectionEnd ==
  (Done /\ ~Skipped("construction"))
    => /\ result.construction.end = result.connection.end - 15
       /\ (locals.repaired /\ ~Skipped("connection"))
            => result.construction.end = locals.fwd.cursor
       /\ result.milestones.constructionCompletion
            = Some(result.construction.end)
       /\ result.construction.durationMonths =
            Max(0, MonthIndex(result.connection.end)
                     - MonthIndex(result.construction.start))

\* a repaired run whose connection ends in the calendar month after the
\* construction end
C19_Witness ==
  /\ Done /\ ~Skipped("construction") /\ ~Skipped("connection")
  /\ locals.repaired
  /\ result.construction.end = locals.fwd.cursor
  /\ MonthIndex(result.connection.end) > MonthIndex(result.construction.end)
  /\ result.construction.durationMonths
       > MonthIndex(result.construction.end)
           - MonthIndex(result.construction.start)

\* C20: for subcontracted projects the restricted months have no influence:
\* the construction start is targetConstructionEnd minus exactly
\* workMonthsNeeded months (before the constraint check, and in the result
\* when no repair fires), and when the repair fires the construction end of
\* the result is securityLockDate plus exactly workMonthsNeeded months.
C20_SubcontractedIgnoresSeasons ==
  (Done /\ config.isSubcontracted /\ ~Skipped("construction"))
    => /\ locals.placedStart =
            subMonths(locals.targetConstructionEnd, locals.workMonthsNeeded)
       /\ locals.back.protection = 0
       /\ ~locals.repaired
            => result.construction.start = locals.placedStart
       /\ locals.repaired
            => /\ locals.fwd.protection = 0
               /\ result.construction.start = locals.securityLockDate
               /\ result.construction.end =
                    addMonths(locals.securityLockDate,
                              locals.workMonthsNeeded)

\* C21: for every configuration with non-negative durations in which
\* construction is not skipped, construction.end is never earlier than
\* construction.start, including when the connection phase is skipped.
C21_ConstructionRangeWellFormed ==
  (Done /\ NonNegativeDurations /\ ~Skipped("construction"))
    => result.construction.end >= result.construction.start

\* C22: a seasonality walk (backward or forward) is truncated by the
\* 36-step bound if and only if workMonthsNeeded is greater than 27; for
\* every workMonthsNeeded from 1 to 27 and every start month the walk ends
\* with the productive-month counter equal to workMonthsNeeded, after at
\* most workMonthsNeeded + 9 steps.
C22_WalkTruncatedIffOver27 ==
  Done
    => /\ result.valid < config.workMonthsNeeded
            <=> config.workMonthsNeeded > 27
       /\ config.workMonthsNeeded <= 27
            => /\ result.valid = config.workMonthsNeeded
               /\ result.protection <= config.workMonthsNeeded + 9

\* C23: starting from the default single project, after any sequence of
\* addProject and deleteProject all project ids of the list are pairwise
\* distinct (so that an edit matching on id === currentId changes exactly
\* one project).
C23_ProjectIdsDistinct ==
  \A i, j \in 1..Len(locals.projects) :
    i # j => locals.projects[i].id # locals.projects[j].id

\* C24: after any sequence of addProject, deleteProject and project
\* selection the list is never empty and currentId always equals the id of a
\* project of the list.
C24_ListNonEmptySelectionValid ==
  /\ locals.projects # <<>>
  /\ \E i \in 1..Len(locals.projects) :
       locals.projects[i].id = locals.currentId

====
